---------------------------- MODULE Spec2Model ----------------------------
(***************************************************************************)
(* Model of sgl-router/py_src/sglang_router/version.py.                    *)
(*                                                                         *)
(* The module resolves the project name and version through a fallback     *)
(* chain (pyproject.toml, then importlib.metadata, then a literal), asks   *)
(* git for branch, commit and working-tree status through subprocesses     *)
(* with a timeout, and renders the answers.  The file system, the TOML     *)
(* parsers, the installed-package registry, git, the import system and     *)
(* the platform query are the environment: every step draws the outcome    *)
(* of the source it consults from the outcomes that source can produce.    *)
(***************************************************************************)
EXTENDS Integers, Sequences, FiniteSets, TLC

VARIABLES
    version_info,    \* sys.version_info of the interpreter, <<major, minor, micro>>
    module_version,  \* the module attribute __version__ (line 253)
    call,            \* the entry point being executed
    pc,              \* the position inside it
    locals,          \* the local variables of the executing entry point
    result,          \* what the last finished call returned
    log,             \* the strategies invoked by the current call, in order
    last,            \* the strategy that finished last and what it yielded
    proc             \* the child process of the subprocess.run in progress

vars == <<version_info, module_version, call, pc, locals, result, log, last, proc>>

-----------------------------------------------------------------------------
(* Bounds and program constants *)

\* longest standard output a git child writes, in characters
MaxOut == 2

\* timeout=5 of every subprocess.run
Timeout == 5

-----------------------------------------------------------------------------
(* Python values *)

None == [t |-> "NoneType"]
StrV(s) == [t |-> "str", s |-> s]
IntV(i) == [t |-> "int", i |-> i]
DictV(kv) == [t |-> "dict", kv |-> kv]

\* a name that is not bound yet
Unbound == [t |-> "unbound"]

EmptyDict == DictV([k \in {} |-> None])

\* bool(v) for the values the module tests: None, str and mappings
Truthy(v) ==
    CASE v.t = "NoneType" -> FALSE
      [] v.t = "str" -> v.s # ""
      [] v.t = "int" -> v.i # 0
      [] v.t = "dict" -> DOMAIN v.kv # {}
      [] OTHER -> TRUE

\* str(v), also what an f-string puts for {v}
PyStr(v) ==
    CASE v.t = "str" -> v.s
      [] v.t = "int" -> ToString(v.i)
      [] v.t = "NoneType" -> "None"
      [] OTHER -> "<object>"

\* d.get(key, default) of a mapping
DictGet(d, key, default) == IF key \in DOMAIN d.kv THEN d.kv[key] ELSE default

\* a or b
PyOr(a, b) == IF Truthy(a) THEN a ELSE b

\* sys.version_info >= bound, the lexicographic order of tuples
RECURSIVE TupleGE(_, _)
TupleGE(a, b) ==
    IF b = <<>> THEN TRUE
    ELSE IF a = <<>> THEN FALSE
    ELSE IF Head(a) # Head(b) THEN Head(a) > Head(b)
    ELSE TupleGE(Tail(a), Tail(b))

\* str.strip(): leading and trailing whitespace removed
Whitespace == {" ", "\t", "\n", "\r"}

RECURSIVE LStrip(_)
LStrip(cs) ==
    IF cs # <<>> /\ Head(cs) \in Whitespace THEN LStrip(Tail(cs)) ELSE cs

RECURSIVE RStrip(_)
RStrip(cs) ==
    IF cs # <<>> /\ cs[Len(cs)] \in Whitespace
    THEN RStrip(SubSeq(cs, 1, Len(cs) - 1))
    ELSE cs

Strip(cs) == RStrip(LStrip(cs))

\* the characters of an output as one str
RECURSIVE Text(_)
Text(cs) == IF cs = <<>> THEN "" ELSE Head(cs) \o Text(Tail(cs))

-----------------------------------------------------------------------------
(* The environment *)

\* interpreters: one without importlib.metadata, one that needs tomli, one with tomllib
PyVersions == {<<3, 7, 9>>, <<3, 10, 4>>, <<3, 11, 6>>}

Fields == {"name", "version"}

\* values a pyproject.toml gives a field of [project]
TomlValues == {StrV(""), StrV("1.4.0"), IntV(0)}

Tables == UNION {[S -> TomlValues] : S \in SUBSET Fields}

\* parsed pyproject.toml documents: no [project], project not a table, a [project] table
Documents ==
    {DictV([k \in {} |-> None]), DictV([project |-> StrV("x")])}
        \cup {DictV([project |-> DictV(tb)]) : tb \in Tables}

\* what one read of the manifest meets: the existence check, the parsers that can
\* be imported, and the load (an exception, or the parsed document)
ManifestEnvs ==
    [exists : {"yes", "no", "error"},
     tomli : BOOLEAN,
     toml : BOOLEAN,
     load : {[error |-> TRUE]} \cup {[error |-> FALSE, data |-> d] : d \in Documents}]

\* header values of an installed distribution's metadata
HeaderValues == {"", "2.0.1"}

Headers == {"Name", "Version"}

\* the registry of installed packages: sglang-router absent, or its metadata
Distributions ==
    {[installed |-> FALSE]}
        \cup {[installed |-> TRUE, meta |-> DictV([h \in S |-> StrV(hv[h])])] :
                 S \in SUBSET Headers, hv \in [Headers -> HeaderValues]}

Chars == {"\n", "m"}

Stdouts == UNION {[1..n -> Chars] : n \in 0..MaxOut}

ReturnCodes == {0, 128}

-----------------------------------------------------------------------------
(* Reading the manifest *)

\* project = data.get("project", {}); value = project.get(field);
\* if value is not None: return str(value).  A project that is no table has no
\* get: the attribute error is an exception of the load.
ProjectField(data, field) ==
    LET project == DictGet(data, "project", EmptyDict) IN
    IF project.t # "dict" THEN [raised |-> TRUE, ret |-> None]
    ELSE LET value == DictGet(project, field, None) IN
         [raised |-> FALSE,
          ret |-> IF value # None THEN StrV(PyStr(value)) ELSE None]

\* with open(pyproject_path) as f: data = <parser>.load(f); ...
LoadField(env, field) ==
    IF env.load.error THEN [raised |-> TRUE, ret |-> None]
    ELSE ProjectField(env.load.data, field)

\* the body of the outer try: tomllib from 3.11 on, else tomli, else toml, else
\* nothing; except Exception: pass
ParseField(env, field) ==
    LET hasParser == \/ TupleGE(version_info, <<3, 11>>)
                     \/ env.tomli
                     \/ env.toml
        r == LoadField(env, field)
    IN IF hasParser /\ ~r.raised THEN r.ret ELSE None

\* _read_field_from_pyproject(field): the value and whether an exception left it.
\* The existence check stands before the try.
_read_field_from_pyproject(field, env) ==
    CASE env.exists = "error" -> [raised |-> TRUE, ret |-> None]
      [] env.exists = "no" -> [raised |-> FALSE, ret |-> None]
      [] OTHER -> [raised |-> FALSE, ret |-> ParseField(env, field)]

-----------------------------------------------------------------------------
(* The installed-package registry *)

\* importlib.metadata.version("sglang-router"): the Version header, None when the
\* metadata has none, PackageNotFoundError when the package is not installed
get_pkg_version(dist) ==
    IF dist.installed
    THEN [raised |-> FALSE, ret |-> DictGet(dist.meta, "Version", None)]
    ELSE [raised |-> TRUE, ret |-> None]

\* importlib.metadata.metadata("sglang-router")
metadata(dist) ==
    IF dist.installed
    THEN [raised |-> FALSE, ret |-> dist.meta]
    ELSE [raised |-> TRUE, ret |-> None]

DefaultName == StrV("sglang-router")
DefaultVersion == StrV("0.2.2")

\* what the installed-package strategy yielded for a field
MetadataYield(field, dist) ==
    IF field = "version" THEN get_pkg_version(dist)
    ELSE LET m == metadata(dist) IN
         IF m.raised \/ ~Truthy(m.ret) THEN [raised |-> m.raised, ret |-> None]
         ELSE [raised |-> FALSE, ret |-> DictGet(m.ret, "Name", None)]

\* lines 70-81 of _get_project_name, once the manifest gave no name
NameFallback(dist) ==
    LET m == metadata(dist) IN
    IF ~m.raised /\ Truthy(m.ret) THEN DictGet(m.ret, "Name", DefaultName)
    ELSE DefaultName

\* lines 91-100 of _get_version_from_pyproject, once the manifest gave no version
VersionFallback(dist) ==
    LET r == get_pkg_version(dist) IN
    IF ~r.raised THEN r.ret ELSE DefaultVersion

Fallback(field, dist) ==
    IF field = "version" THEN VersionFallback(dist) ELSE NameFallback(dist)

Default(field) == IF field = "version" THEN DefaultVersion ELSE DefaultName

\* if sys.version_info >= (3, 8)
HasImportlibMetadata == TupleGE(version_info, <<3, 8>>)

\* variant of ManifestDecides: the test of the manifest's value left out
ManifestNeverDecides(v) == FALSE

\* if name: return name / if version: return version
ManifestDecides(v) == Truthy(v)

\* variant of OnManifestMiss: the manifest is read again
RetryManifest(field) == "read_" \o field

\* the statement after a manifest read that gave nothing: the fallback's try
OnManifestMiss(field) == "meta_" \o field

-----------------------------------------------------------------------------
(* Git through subprocess.run *)

NoProc == [state |-> "none"]

\* variant of Expired: subprocess.run without a timeout
NeverExpired(p) == FALSE

\* timeout=5: the wait of subprocess.run ends when the timeout has passed
Expired(p) == p.elapsed >= Timeout

\* how a subprocess.run ended, for the record of the last strategy
HowEnded(p) ==
    CASE p.state = "timeout" -> "TimeoutExpired"
      [] p.state = "error" -> "OSError"
      [] p.state = "exited" /\ p.rc = 0 -> "exit 0"
      [] p.state = "exited" /\ p.stdout = <<>> -> "exit nonzero, no output"
      [] OTHER -> "exit nonzero, output"

\* result.stdout.strip() as a str
StdoutStripped(p) == StrV(Text(Strip(p.stdout)))

\* variant of GitValue: the return code is not tested
GitValueAnyExit(p) == IF p.state = "exited" THEN StdoutStripped(p) ELSE None

\* if result.returncode == 0: return result.stdout.strip(); an exception of
\* subprocess.run (TimeoutExpired, OSError) is passed over; return None
GitValue(p) ==
    IF p.state = "exited" /\ p.rc = 0 THEN StdoutStripped(p) ELSE None

_get_git_branch(p) == GitValue(p)

_get_git_commit(p) == GitValue(p)

\* variant of _get_git_status: a failed command counts as a clean tree
GitStatusCleanOnFailure(p) ==
    IF p.state = "exited" /\ p.rc = 0 /\ Truthy(StdoutStripped(p))
    THEN StrV("dirty")
    ELSE StrV("clean")

\* "dirty" for output left after strip(), "clean" for none, None for a failure
_get_git_status(p) ==
    IF p.state = "exited" /\ p.rc = 0
    THEN IF Truthy(StdoutStripped(p)) THEN StrV("dirty") ELSE StrV("clean")
    ELSE None

GitCommands == {"branch", "commit", "status"}

GitLookup(cmd, p) ==
    CASE cmd = "branch" -> _get_git_branch(p)
      [] cmd = "commit" -> _get_git_commit(p)
      [] OTHER -> _get_git_status(p)

Unknown == StrV("unknown")

-----------------------------------------------------------------------------
(* Build and runtime information *)

\* datetime.utcnow().strftime("%Y-%m-%d %H:%M:%S UTC")
Clock == {"2025-01-01 00:00:00 UTC"}

_get_build_time(now) == StrV(now)

\* f"{major}.{minor}.{micro}"
_get_python_version ==
    StrV(ToString(version_info[1]) \o "." \o ToString(version_info[2])
            \o "." \o ToString(version_info[3]))

\* what import sglang_router meets: the module with or without __file__, an
\* ImportError, another exception of the module's own code
ImportOutcomes == {"with_file", "without_file", "ImportError", "Exception"}

Imported(imp) == imp \in {"with_file", "without_file"}

_get_build_mode(imp) ==
    CASE imp = "with_file" -> StrV("development")
      [] imp = "without_file" -> StrV("production")
      [] OTHER -> StrV("unknown")

\* platform.platform(): the string, or an exception
PlatformOutcomes ==
    {[raised |-> FALSE, ret |-> StrV("Linux-6.1-x86_64")],
     [raised |-> TRUE, ret |-> None]}

_get_platform(p) == p

RustcUnavailable == StrV("N/A (Rust extension not available)")
RustcAvailable == StrV("Available (version info from extension)")

-----------------------------------------------------------------------------
(* The entry points *)

EntryPoints == {"get_version", "get_short_version_string", "get_version_string"}

LocalNames ==
    {"project_name", "version", "build_time", "git_branch", "git_commit",
     "git_status", "python_version", "build_mode", "platform_info",
     "rustc_version", "cargo_version"}

\* the frame of a call that has assigned nothing yet
NewFrame == [n \in LocalNames |-> Unbound]

NoStrategy == [strategy |-> "", how |-> "", yield |-> None]

LocalOf(field) == IF field = "name" THEN "project_name" ELSE "version"

\* the first statement of an entry point
FirstStage(c) ==
    IF c \in {"get_version", "<module>"} THEN "read_version" ELSE "read_name"

\* the statement that follows a finished one
AfterStage(c, stage) ==
    CASE stage = "name" -> "read_version"
      [] stage = "version" ->
            IF c = "get_version_string" THEN "build_time"
            ELSE IF c = "get_short_version_string" THEN "git_commit"
            ELSE "return"
      [] stage = "build_time" -> "git_branch"
      [] stage = "git_branch" -> "git_commit"
      [] stage = "git_commit" ->
            IF c = "get_version_string" THEN "git_status" ELSE "return"
      [] stage = "git_status" -> "python_version"
      [] stage = "python_version" -> "build_mode"
      [] stage = "build_mode" -> "platform"
      [] stage = "platform" -> "rust_probe"
      [] OTHER -> "return"

\* where an exception that nothing catches leaves the caller
Propagated(c) == IF c = "<module>" THEN "import_failed" ELSE "raised"

\* variant of get_version: the value stored in __version__ is returned again
get_version_cached ==
    IF module_version.t = "unbound" THEN locals.version ELSE module_version

\* get_version(): return _get_version_from_pyproject()
get_version == locals.version

\* f"{project_name} version {version}, build {git_commit}"
get_short_version_string ==
    StrV(PyStr(locals.project_name) \o " version " \o PyStr(locals.version)
            \o ", build " \o PyStr(locals.git_commit))

get_version_string ==
    StrV(PyStr(locals.project_name) \o " " \o PyStr(locals.version) \o "\n\n"
            \o "Build Information:\n"
            \o "  Build Time: " \o PyStr(locals.build_time) \o "\n"
            \o "  Build Mode: " \o PyStr(locals.build_mode) \o "\n"
            \o "  Platform: " \o PyStr(locals.platform_info) \o "\n\n"
            \o "Version Control:\n"
            \o "  Git Branch: " \o PyStr(locals.git_branch) \o "\n"
            \o "  Git Commit: " \o PyStr(locals.git_commit) \o "\n"
            \o "  Git Status: " \o PyStr(locals.git_status) \o "\n\n"
            \o "Runtime:\n"
            \o "  Python: " \o PyStr(locals.python_version) \o "\n"
            \o "  Rustc: " \o PyStr(locals.rustc_version) \o "\n"
            \o "  Cargo: " \o PyStr(locals.cargo_version))

ReturnValue(c) ==
    CASE c = "get_version_string" -> get_version_string
      [] c = "get_short_version_string" -> get_short_version_string
      [] OTHER -> get_version

-----------------------------------------------------------------------------
(* The state machine *)

\* the module is being imported: line 253 calls get_version()
Init ==
    /\ version_info \in PyVersions
    /\ module_version = Unbound
    /\ call = "<module>"
    /\ pc = FirstStage("<module>")
    /\ locals = NewFrame
    /\ result = Unbound
    /\ log = <<>>
    /\ last = NoStrategy
    /\ proc = NoProc

\* a caller enters one of the public functions
Call(c) ==
    /\ pc \in {"idle", "returned", "raised"}
    /\ call' = c
    /\ pc' = FirstStage(c)
    /\ locals' = NewFrame
    /\ result' = Unbound
    /\ log' = <<>>
    /\ last' = NoStrategy
    /\ proc' = NoProc
    /\ UNCHANGED <<version_info, module_version>>

\* name = _read_field_from_pyproject("name"); if name: return name
\* version = _read_field_from_pyproject("version"); if version: return version
ReadManifest(field) ==
    /\ pc = "read_" \o field
    /\ \E env \in ManifestEnvs :
          LET r == _read_field_from_pyproject(field, env) IN
          /\ last' = [strategy |-> "manifest:" \o field,
                      how |-> IF r.raised THEN "raised" ELSE "returned",
                      yield |-> r.ret]
          /\ IF r.raised
             THEN /\ pc' = Propagated(call)
                  /\ locals' = locals
             ELSE IF ManifestDecides(r.ret)
             THEN /\ pc' = AfterStage(call, field)
                  /\ locals' = [locals EXCEPT ![LocalOf(field)] = r.ret]
             ELSE /\ pc' = OnManifestMiss(field)
                  /\ locals' = locals
    /\ log' = Append(log, "manifest:" \o field)
    /\ UNCHANGED <<version_info, module_version, call, result, proc>>

\* the fallback to importlib.metadata, guarded by try / except Exception
ReadMetadata(field) ==
    /\ pc = "meta_" \o field
    /\ HasImportlibMetadata
    /\ \E dist \in Distributions :
          LET y == MetadataYield(field, dist) IN
          /\ last' = [strategy |-> "metadata:" \o field,
                      how |-> IF y.raised THEN "PackageNotFoundError" ELSE "returned",
                      yield |-> y.ret]
          /\ locals' = [locals EXCEPT ![LocalOf(field)] = Fallback(field, dist)]
    /\ log' = Append(log, "metadata:" \o field)
    /\ pc' = AfterStage(call, field)
    /\ UNCHANGED <<version_info, module_version, call, result, proc>>

\* an interpreter before 3.8: the fallback is passed over, the literal is returned
SkipMetadata(field) ==
    /\ pc = "meta_" \o field
    /\ ~HasImportlibMetadata
    /\ locals' = [locals EXCEPT ![LocalOf(field)] = Default(field)]
    /\ pc' = AfterStage(call, field)
    /\ UNCHANGED <<version_info, module_version, call, result, log, last, proc>>

\* build_time = _get_build_time()
BuildTime ==
    /\ pc = "build_time"
    /\ \E now \in Clock :
          locals' = [locals EXCEPT !.build_time = _get_build_time(now)]
    /\ pc' = AfterStage(call, "build_time")
    /\ UNCHANGED <<version_info, module_version, call, result, log, last, proc>>

\* subprocess.run starts the git child, or fails to (OSError: no git)
GitSpawn(cmd) ==
    /\ pc = "git_" \o cmd
    /\ proc.state = "none"
    /\ \E started \in BOOLEAN :
          proc' = IF started THEN [state |-> "running", elapsed |-> 0]
                  ELSE [state |-> "error"]
    /\ log' = Append(log, "git:" \o cmd)
    /\ UNCHANGED <<version_info, module_version, call, pc, locals, result, last>>

\* a time unit passes while subprocess.run waits for the child
GitTick ==
    /\ proc.state = "running"
    /\ ~Expired(proc)
    /\ proc' = [proc EXCEPT !.elapsed = @ + 1]
    /\ UNCHANGED <<version_info, module_version, call, pc, locals, result, log, last>>

\* the child exits within the timeout with some status and output
GitExit ==
    /\ proc.state = "running"
    /\ \E rc \in ReturnCodes, out \in Stdouts :
          proc' = [state |-> "exited", rc |-> rc, stdout |-> out]
    /\ UNCHANGED <<version_info, module_version, call, pc, locals, result, log, last>>

\* the timeout passes: subprocess.run kills the child and raises TimeoutExpired
GitTimeout ==
    /\ proc.state = "running"
    /\ Expired(proc)
    /\ proc' = [state |-> "timeout"]
    /\ UNCHANGED <<version_info, module_version, call, pc, locals, result, log, last>>

\* git_x = _get_git_x() or "unknown"
GitReturn(cmd) ==
    /\ pc = "git_" \o cmd
    /\ proc.state \in {"exited", "timeout", "error"}
    /\ LET ret == GitLookup(cmd, proc) IN
          /\ last' = [strategy |-> "git:" \o cmd, how |-> HowEnded(proc),
                      yield |-> ret]
          /\ locals' = [locals EXCEPT !["git_" \o cmd] = PyOr(ret, Unknown)]
    /\ proc' = NoProc
    /\ pc' = AfterStage(call, "git_" \o cmd)
    /\ UNCHANGED <<version_info, module_version, call, result, log>>

\* python_version = _get_python_version()
PythonVersion ==
    /\ pc = "python_version"
    /\ locals' = [locals EXCEPT !.python_version = _get_python_version]
    /\ pc' = AfterStage(call, "python_version")
    /\ UNCHANGED <<version_info, module_version, call, result, log, last, proc>>

\* build_mode = _get_build_mode()
BuildMode ==
    /\ pc = "build_mode"
    /\ \E imp \in ImportOutcomes :
          locals' = [locals EXCEPT !.build_mode = _get_build_mode(imp)]
    /\ pc' = AfterStage(call, "build_mode")
    /\ UNCHANGED <<version_info, module_version, call, result, log, last, proc>>

\* platform_info = _get_platform(): nothing catches what platform.platform() raises
Platform ==
    /\ pc = "platform"
    /\ \E p \in PlatformOutcomes :
          LET r == _get_platform(p) IN
          IF r.raised
          THEN /\ pc' = Propagated(call)
               /\ locals' = locals
          ELSE /\ pc' = AfterStage(call, "platform")
               /\ locals' = [locals EXCEPT !.platform_info = r.ret]
    /\ UNCHANGED <<version_info, module_version, call, result, log, last, proc>>

\* lines 212-221: the second import of sglang_router; only ImportError is caught.
\* A module that _get_build_mode imported is in sys.modules and imports again.
RustProbe ==
    /\ pc = "rust_probe"
    /\ \E imp \in ImportOutcomes :
          /\ locals.build_mode # StrV("unknown") => Imported(imp)
          /\ IF imp = "Exception"
             THEN /\ pc' = Propagated(call)
                  /\ locals' = [locals EXCEPT !.rustc_version = RustcUnavailable,
                                              !.cargo_version = StrV("N/A")]
             ELSE /\ pc' = AfterStage(call, "rust_probe")
                  /\ locals' = [locals EXCEPT
                        !.rustc_version =
                            IF Imported(imp) THEN RustcAvailable ELSE RustcUnavailable,
                        !.cargo_version = StrV("N/A")]
    /\ UNCHANGED <<version_info, module_version, call, result, log, last, proc>>

\* the return statement of a public function
Return ==
    /\ pc = "return"
    /\ call \in EntryPoints
    /\ result' = ReturnValue(call)
    /\ pc' = "returned"
    /\ UNCHANGED <<version_info, module_version, call, locals, log, last, proc>>

\* __version__ = get_version(): the import of the module ends
ModuleLoaded ==
    /\ pc = "return"
    /\ call = "<module>"
    /\ module_version' = get_version
    /\ pc' = "idle"
    /\ UNCHANGED <<version_info, call, locals, result, log, last, proc>>

Next ==
    \/ \E c \in EntryPoints : Call(c)
    \/ \E field \in Fields : ReadManifest(field)
    \/ \E field \in Fields : ReadMetadata(field)
    \/ \E field \in Fields : SkipMetadata(field)
    \/ BuildTime
    \/ \E cmd \in GitCommands : GitSpawn(cmd)
    \/ GitTick
    \/ GitExit
    \/ GitTimeout
    \/ \E cmd \in GitCommands : GitReturn(cmd)
    \/ PythonVersion
    \/ BuildMode
    \/ Platform
    \/ RustProbe
    \/ Return
    \/ ModuleLoaded

Spec == Init /\ [][Next]_vars

-----------------------------------------------------------------------------
(* Properties *)

\* a value that counts as a strategy's success: a str that is not empty
NonEmpty(v) == v.t = "str" /\ v.s # ""

Range(seq) == {seq[i] : i \in DOMAIN seq}

\* the strategies in the order of the source
Priority ==
    <<"manifest:name", "metadata:name", "manifest:version", "metadata:version",
      "git:branch", "git:commit", "git:status">>

Rank(s) == CHOOSE i \in DOMAIN Priority : Priority[i] = s

\* v is the str left of the output out once the whitespace at its two ends is gone
IsTrimOf(out, v) ==
    \E i \in 0..Len(out) : \E j \in i..Len(out) :
        /\ \A k \in 1..i : out[k] \in Whitespace
        /\ \A k \in (j + 1)..Len(out) : out[k] \in Whitespace
        /\ i < j => (out[i + 1] \notin Whitespace /\ out[j] \notin Whitespace)
        /\ v = StrV(Text(SubSeq(out, i + 1, j)))

\* a subprocess.run has ended and the lookup cmd returns in this step
GitReturns(cmd) ==
    /\ pc = "git_" \o cmd
    /\ proc.state \in {"exited", "timeout", "error"}
    /\ proc'.state = "none"

\* C1: the first strategy of a chain to give a non-empty value decides the result
\* and ends the chain.  The package metadata is consulted only after a manifest
\* read that gave nothing; a non-empty manifest field is the result and no
\* metadata lookup is in the call's log; a non-empty value of the package
\* metadata, reached after the manifest gave nothing, is the result.
C1_FirstNonEmptyWins ==
    \A f \in Fields :
        /\ pc = "meta_" \o f =>
              /\ last.strategy = "manifest:" \o f
              /\ ~NonEmpty(last.yield)
        /\ (last.strategy = "manifest:" \o f /\ NonEmpty(last.yield)) =>
              /\ locals[LocalOf(f)] = last.yield
              /\ ("metadata:" \o f) \notin Range(log)
        /\ (last.strategy = "metadata:" \o f /\ NonEmpty(last.yield)) =>
              /\ locals[LocalOf(f)] = last.yield
              /\ pc = "returned" /\ call = "get_version" => result = last.yield

\* the manifest is missing, the package metadata reports 2.0.1, get_version returns it
C1_Witness ==
    /\ pc = "returned"
    /\ call = "get_version"
    /\ log = <<"manifest:version", "metadata:version">>
    /\ last.yield = StrV("2.0.1")
    /\ result = StrV("2.0.1")

\* C2: every resolution ends by returning a str: no call ends in an exception,
\* a returned result is a str, and the git values rendered are strs.
C2_Total ==
    /\ pc # "raised"
    /\ pc = "returned" =>
          /\ result.t = "str"
          /\ locals.version.t = "str"
          /\ call # "get_version" => locals.project_name.t = "str"
          /\ call # "get_version" => locals.git_commit.t = "str"
          /\ call = "get_version_string" =>
                locals.git_branch.t = "str" /\ locals.git_status.t = "str"

\* C3: an empty string of a strategy is a failure: after an empty manifest field
\* the chain goes on, after an empty value of the package metadata the result
\* is the default, after an empty git output the value rendered is "unknown".
C3_EmptyFallsThrough ==
    /\ \A f \in Fields :
          /\ (last.strategy = "manifest:" \o f /\ last.yield = StrV("")) =>
                \/ pc = "meta_" \o f
                \/ locals[LocalOf(f)] = Default(f)
          /\ (last.strategy = "metadata:" \o f /\ last.yield = StrV("")) =>
                locals[LocalOf(f)] = Default(f)
    /\ \A cmd \in {"branch", "commit"} :
          (last.strategy = "git:" \o cmd /\ last.yield = StrV("")) =>
              locals["git_" \o cmd] = Unknown

\* C4: no exception reaches the caller of a public function.
C4_NothingPropagates == call \in EntryPoints => pc # "raised"

\* C5: a chain whose strategies all gave nothing or failed results in its default.
C5_AllFailDefault ==
    /\ \A f \in Fields :
          /\ (last.strategy = "metadata:" \o f /\ ~NonEmpty(last.yield)) =>
                locals[LocalOf(f)] = Default(f)
          /\ (/\ last.strategy = "manifest:" \o f
              /\ ~NonEmpty(last.yield)
              /\ pc \in {"return", "returned", "read_version", "build_time", "git_commit"}) =>
                locals[LocalOf(f)] = Default(f)
    /\ \A cmd \in GitCommands :
          (last.strategy = "git:" \o cmd /\ ~NonEmpty(last.yield)) =>
              locals["git_" \o cmd] = Unknown

\* C6: the wait for a git child never lasts longer than 5; at 5 the wait ends
\* in the timeout; a lookup whose child timed out is None, rendered "unknown",
\* and the call goes on to its next lookup: all three lookups of a finished
\* get_version_string were run.
C6_TimeoutFailsClosed ==
    /\ proc.state = "running" =>
          /\ proc.elapsed <= 5
          /\ proc.elapsed = 5 => (ENABLED GitTimeout /\ ~ENABLED GitTick)
    /\ last.how = "TimeoutExpired" =>
          /\ last.yield = None
          /\ \E cmd \in GitCommands :
                /\ last.strategy = "git:" \o cmd
                /\ locals["git_" \o cmd] = Unknown
          /\ last.strategy = "git:branch" => pc = "git_commit"
          /\ (last.strategy = "git:commit" /\ call = "get_version_string") =>
                pc = "git_status"
    /\ (pc = "returned" /\ call = "get_version_string") =>
          {"git:branch", "git:commit", "git:status"} \subseteq Range(log)
    /\ (pc = "returned" /\ call = "get_short_version_string") =>
          "git:commit" \in Range(log)

\* the branch lookup timed out, is rendered "unknown", and the commit lookup runs
C6_Witness ==
    /\ last.strategy = "git:branch"
    /\ last.how = "TimeoutExpired"
    /\ locals.git_branch = Unknown
    /\ pc = "git_commit"
    /\ proc.state = "running"

\* C7: when a branch or commit lookup returns, its value is the output with the
\* whitespace at both ends removed if the child exited with status 0, and None
\* in every other case (another exit status, a timeout, an OS error), whatever
\* the child wrote.
C7_ExitStatusDecides ==
    [][\A cmd \in {"branch", "commit"} :
          GitReturns(cmd) =>
              IF proc.state = "exited" /\ proc.rc = 0
              THEN IsTrimOf(proc.stdout, last'.yield)
              ELSE last'.yield = None]_vars

\* a commit lookup whose child wrote output and exited nonzero gave None
C7_Witness ==
    /\ last.strategy = "git:commit"
    /\ last.how = "exit nonzero, output"
    /\ last.yield = None
    /\ locals.git_commit = Unknown

\* C8: a call invokes each strategy at most once and in priority order, and
\* the metadata lookup of a field comes directly after the manifest read of
\* that field.
C8_NoRetry ==
    /\ \A i, j \in DOMAIN log : i < j => Rank(log[i]) < Rank(log[j])
    /\ \A i \in DOMAIN log : \A f \in Fields :
          log[i] = "metadata:" \o f => (i > 1 /\ log[i - 1] = "manifest:" \o f)

\* a get_version_string in which every strategy was needed, each once
C8_Witness ==
    /\ pc = "returned"
    /\ call = "get_version_string"
    /\ log = Priority

\* C9: a finished call began with the first strategy of its chain, and what
\* it returned is made of what its own strategies gave: get_version returns the
\* value of the strategy that ended its chain (or the default), not the value
\* the import stored in __version__, and the strings are rendered from values
\* bound during the call.
C9_Stateless ==
    pc = "returned" =>
        /\ log # <<>>
        /\ log[1] = (IF call = "get_version" THEN "manifest:version" ELSE "manifest:name")
        /\ call = "get_version" =>
              result = (IF last.strategy = "manifest:version"
                        THEN (IF NonEmpty(last.yield) THEN last.yield ELSE DefaultVersion)
                        ELSE IF last.how = "PackageNotFoundError" THEN DefaultVersion
                        ELSE last.yield)
        /\ call = "get_short_version_string" =>
              /\ \A n \in {"project_name", "version", "git_commit"} : locals[n] # Unbound
              /\ locals.git_commit = PyOr(last.yield, Unknown)
              /\ result = StrV(PyStr(locals.project_name) \o " version "
                                \o PyStr(locals.version) \o ", build "
                                \o PyStr(locals.git_commit))
        /\ call = "get_version_string" =>
              /\ \A n \in LocalNames : locals[n] # Unbound
              /\ result.t = "str"

\* the import stored 2.0.1 in __version__; a later get_version returns the
\* manifest's 1.4.0
C9_Witness ==
    /\ pc = "returned"
    /\ call = "get_version"
    /\ module_version = StrV("2.0.1")
    /\ last.strategy = "manifest:version"
    /\ result = StrV("1.4.0")

\* C10: when the status lookup returns, it is "dirty" exactly for exit status 0
\* with output that is not blank, "clean" exactly for exit status 0 with blank
\* output, None otherwise; the status rendered is "clean", "dirty" or
\* "unknown", and "unknown" for every failed command.
C10_StatusExact ==
    [][GitReturns("status") =>
          LET ok == proc.state = "exited" /\ proc.rc = 0
              blank == \A i \in DOMAIN proc.stdout : proc.stdout[i] \in Whitespace
          IN /\ last'.yield = StrV("dirty") <=> (ok /\ ~blank)
             /\ last'.yield = StrV("clean") <=> (ok /\ blank)
             /\ last'.yield = None <=> ~ok
             /\ locals'.git_status \in {StrV("clean"), StrV("dirty"), Unknown}
             /\ ~ok => locals'.git_status = Unknown]_vars

\* a status command that wrote output and exited nonzero is rendered "unknown"
C10_Witness ==
    /\ pc = "returned"
    /\ call = "get_version_string"
    /\ last.strategy = "git:status"
    /\ last.how = "exit nonzero, output"
    /\ locals.git_status = Unknown

=============================================================================
